---- MODULE Spec2Model ----
(***************************************************************************)
(* The chip-tree work loop of packages/runtime_base/src/workRender.ts:     *)
(* first render (performRenderSync / registerOngoingChipWork), the         *)
(* reconciliation pass (registerOngoingReconcileWork) and the property     *)
(* diff (reconcileProps), over the chip records of chip.ts.                *)
(*                                                                         *)
(* A chip is a record addressed by a positive integer; NULL is the null    *)
(* pointer and UNDEF the JavaScript value `undefined` (a field the         *)
(* constructor never wrote, or an array read out of range).  A TypeError   *)
(* (a property read on null/undefined, a call of a non-function) is the    *)
(* flag `threw` of the machine record: the writes made before the throw    *)
(* stay, the rest of the handler does not run.                             *)
(***************************************************************************)
EXTENDS Integers, Sequences, FiniteSets, TLC

\* ---------------------------------------------------------------- bounds
MaxChips == 3          \* chips of a first-render tree
MaxPauses == 2         \* times the scheduler runs other work between chip units

\* ------------------------------------------------------ program constants
NULL == 0
UNDEF == -1

\* ChipPhases
PENDING == 0
INITIALIZE == 1
COMPLETE == 2

\* RenderModes
SYNCHRONOUS == 0
CONCURRENT == 1

\* UnitTypes, read by workRender.ts as ChipTypes
NATIVE_DOM == 0
RESERVED_COMPONENT == 1
CUSTOM_COMPONENT == 2
CONDITION == 3
FRAGMENT == 4

\* RenderUpdateTypes
PATCH_PROP == 1
CREATE_ELEMENT == 4
MOUNT == 8
UNMOUNT == 16
MOVE == 64

ChipKinds == {NATIVE_DOM, CUSTOM_COMPONENT, CONDITION, FRAGMENT}

\* HookInvokingStrategies
Strategies == {"ON_IDLE", "IMMEDIATE"}

\* Component descriptors createComponentInstance tells apart: a function
\* component (the instance gets `render`) and an option component with an
\* `install` function (the instance gets `dataSource` and no `render`).
ComponentTags == {"function", "option"}

\* ------------------------------------------------------------- helpers
Falsy(x) == x = NULL \/ x = UNDEF

Throw(m) == [m EXCEPT !.threw = TRUE]

Then(m, F(_)) == IF m.threw THEN m ELSE F(m)

NoChildren == [isArr |-> FALSE, items |-> <<>>]

EmptyList == [units |-> <<>>, last |-> 0]

NoInstance == [chip |-> NULL, hasRender |-> FALSE]

\* A getter that was never evaluated.
NoSourceGetter == [value |-> UNDEF, previous |-> UNDEF, read |-> UNDEF]

\* A property value: a static literal `v`, or a getter (`dyn`) whose call
\* yields `v`, with the literal last stored on it (`cached`) and the effect
\* it carries (`effect`).
staticProp(name, v) ==
  [name |-> name, dyn |-> FALSE, v |-> v, cached |-> UNDEF, effect |-> UNDEF]

dynamicProp(name, v, cached) ==
  [name |-> name, dyn |-> TRUE, v |-> v, cached |-> cached, effect |-> UNDEF]

\* The value createChip returns, with the fields of interface Chip that the
\* work loop reads: phase starts PENDING, the pointers start null.  The
\* '__n_isChip' marker (ChipFlags.IS_CHIP) is not written by createChip.
createChip(type, tag, props, children) ==
  [ chipType |-> type, tag |-> tag, key |-> NULL, props |-> props,
    children |-> children, elm |-> NULL, instance |-> NoInstance,
    parent |-> NULL, prevSibling |-> NULL, lastChild |-> NULL,
    currentChildIndex |-> UNDEF, effects |-> EmptyList, wormhole |-> NULL,
    phase |-> PENDING, compileFlags |-> {}, maySkip |-> FALSE,
    deletions |-> NoChildren, isChip |-> FALSE ]

\* The last chip of a children container: the chip itself for a single
\* child, the tail of an array, null for an absent or empty container.
getLastChipChild(children) ==
  IF children.items = <<>> THEN NULL
  ELSE children.items[Len(children.items)]

\* ------------------------------------------------- collaborators (interfaces)
\* invokeLifecycle(hook, target): the hook runs now.
invokeLifecycle(m, hook, target) ==
  [m EXCEPT !.hooks = Append(@, [hook |-> hook, target |-> target])]

\* registerLifecycleHook(root, hook, list): the hook joins the root's cache.
registerLifecycleHook(m, hook, target) ==
  IF hook = "MOUNTED" THEN [m EXCEPT !.root.MOUNTED = Append(@, target)]
  ELSE [m EXCEPT !.root.UPDATED = Append(@, target)]

\* invokeLifecycle(hook, chipRoot): every cached hook of that kind runs, in
\* cache order.
RECURSIVE invokeCached(_, _, _)
invokeCached(m, hook, cache) ==
  IF cache = <<>> THEN m
  ELSE invokeCached(invokeLifecycle(m, hook, Head(cache)), hook, Tail(cache))

\* domOptions.createElement: a fresh handle.
domCreateElement(m, c) ==
  LET h == Cardinality({i \in 1..Len(m.dom) : m.dom[i].op = "createElement"}) + 1
  IN [m EXCEPT !.dom = Append(@, [op |-> "createElement", chip |-> c, elm |-> h,
                                  to |-> NULL, name |-> "", literal |-> FALSE, value |-> UNDEF]),
               !.chip[c].elm = h]

domAppendChild(m, elm, parentElm) ==
  [m EXCEPT !.dom = Append(@, [op |-> "appendChild", chip |-> NULL, elm |-> elm,
                               to |-> parentElm, name |-> "", literal |-> FALSE, value |-> UNDEF])]

\* domOptions.setAttribute(elm, name, `${value}`): a getter is written as
\* its source text, not as its literal.
domSetAttribute(m, elm, prop) ==
  [m EXCEPT !.dom = Append(@, [op |-> "setAttribute", chip |-> NULL, elm |-> elm,
                               to |-> NULL, name |-> prop.name, literal |-> ~prop.dyn,
                               value |-> IF prop.dyn THEN UNDEF ELSE prop.v])]

\* ------------------------------------------------------- component.ts
createComponentInstance(tag, c) ==
  [chip |-> c, hasRender |-> (tag = "function")]

\* ------------------------------------------------------ render effects
\* chip.effects is a linked list {first, last}: `units` is the chain read
\* from `first` along `next`, `last` the position the `last` pointer is at.
\* The append writes the new unit behind `last` and stores the new unit on
\* the effect (effect.last), so the list's own `last` stays where it was.
cacheEffectToChip(m, e, c) ==
  IF Falsy(c) THEN Throw(m) ELSE                 \* null.effects
  LET effects == m.chip[c].effects IN
  IF effects.units # <<>>
  THEN [m EXCEPT !.chip[c].effects =
          [units |-> Append(SubSeq(effects.units, 1, effects.last), e),
           last |-> effects.last]]
  ELSE [m EXCEPT !.chip[c].effects = [units |-> <<e>>, last |-> 1]]

newEffect(m, kind, c, name) ==
  [id |-> m.nextEffect, kind |-> kind, chip |-> c, name |-> name]

\* The getter runs once on creation (lazy, collectWhenLazy) and stores the
\* literal on the getter; the effect joins the list of `c`.
createRenderEffectForProp(m, c, owner, i) ==
  LET e == newEffect(m, "prop", c, m.chip[owner].props[i].name)
      m1 == [m EXCEPT !.nextEffect = @ + 1,
                      !.chip[owner].props[i].cached = m.chip[owner].props[i].v]
  IN cacheEffectToChip(m1, e, c)

createRenderEffectForConditionChip(m, c) ==
  LET e == newEffect(m, "condition", c, "")
      m1 == [m EXCEPT !.nextEffect = @ + 1, !.chip[c].children = m.tmpl[c]]
  IN cacheEffectToChip(m1, e, c)

\* The source literal is stored on the getter before the loop compares it
\* with the stored one, so every child is marked maySkip.
RECURSIVE markMaySkip(_, _)
markMaySkip(ch, items) ==
  IF items = <<>> THEN ch
  ELSE markMaySkip([ch EXCEPT ![Head(items)].maySkip = TRUE], Tail(items))

createRenderEffectForIterableChip(m, c) ==
  LET e == newEffect(m, "iterable", c, "")
      m1 == [m EXCEPT !.nextEffect = @ + 1,
                      !.chip = markMaySkip(@, m.tmpl[c].items)]
      m2 == [m1 EXCEPT !.chip[c].children = [isArr |-> TRUE, items |-> m.tmpl[c].items]]
  IN cacheEffectToChip(m2, e, c)

initConditionChip(m, c) ==
  createRenderEffectForConditionChip(
    [m EXCEPT !.chip[c].instance = [chip |-> c, hasRender |-> TRUE]], c)

initIterableChip(m, c) ==
  createRenderEffectForIterableChip(
    [m EXCEPT !.chip[c].instance = [chip |-> c, hasRender |-> TRUE]], c)

\* ------------------------------------------------------- first render
initRenderWorkForComponent(m, c) ==
  LET instance == createComponentInstance(m.chip[c].tag, c)
      m1 == [m EXCEPT !.chip[c].instance = instance]
      m2 == invokeLifecycle(m1, "INIT", c)
      m3 == [m2 EXCEPT !.collecting = FALSE]
  IN IF ~instance.hasRender THEN Throw(m3)       \* render is not a function
     ELSE LET m4 == [m3 EXCEPT !.chip[c].children = m.tmpl[c]]
              m5 == [m4 EXCEPT !.collecting = TRUE]
          IN invokeLifecycle(m5, "WILL_MOUNT", c)

initRenderWorkForElement(m, c) == domCreateElement(m, c)

\* The CONDITION case has no break: it runs the iterable initialization too.
initRenderWorkForChip(m, c) ==
  LET t == m.chip[c].chipType IN
  IF t = CUSTOM_COMPONENT THEN initRenderWorkForComponent(m, c)
  ELSE IF t = RESERVED_COMPONENT THEN m
  ELSE IF t = NATIVE_DOM THEN initRenderWorkForElement(m, c)
  ELSE IF t = CONDITION THEN Then(initConditionChip(m, c), LAMBDA a : initIterableChip(a, c))
  ELSE IF t = FRAGMENT THEN initIterableChip(m, c)
  ELSE m

\* let current = chip.parent; while (current.elm === null) current = current.parent
\* The result is a handle, or UNDEF when the walk reads `.elm` of null.
RECURSIVE ancestorWalk(_, _)
ancestorWalk(ch, current) ==
  IF current = NULL THEN UNDEF
  ELSE IF ch[current].elm = NULL THEN ancestorWalk(ch, ch[current].parent)
  ELSE ch[current].elm

getAncestorContainer(m, c) == ancestorWalk(m.chip, m.chip[c].parent)

RECURSIVE elementProps(_, _, _)
elementProps(m, c, i) ==
  IF i > Len(m.chip[c].props) THEN m
  ELSE LET prop == m.chip[c].props[i]
           m1 == IF prop.dyn THEN createRenderEffectForProp(m, c, c, i) ELSE m
           m2 == IF m1.chip[c].elm # NULL THEN domSetAttribute(m1, m1.chip[c].elm, prop) ELSE m1
       IN elementProps(m2, c, i + 1)

completeRenderWorkForElement(m, c) ==
  LET parentElm == getAncestorContainer(m, c)
      elm == m.chip[c].elm
  IN IF parentElm = UNDEF THEN Throw(m)          \* null.elm
     ELSE LET m1 == IF elm # NULL THEN domAppendChild(m, elm, parentElm) ELSE m
          IN elementProps(m1, c, 1)

\* A completion that runs the MOUNTED hook at once whatever the strategy.
completeRenderWorkForComponentAtOnce(m, c) == invokeLifecycle(m, "MOUNTED", c)

completeRenderWorkForComponent(m, c) ==
  IF m.root.mutableHookStrategy = "ON_IDLE"
  THEN registerLifecycleHook(m, "MOUNTED", c)
  ELSE invokeLifecycle(m, "MOUNTED", c)

completeRenderWorkForChipSync(m, c) ==
  LET t == m.chip[c].chipType IN
  IF t = NATIVE_DOM THEN completeRenderWorkForElement(m, c)
  ELSE IF t = CUSTOM_COMPONENT THEN completeRenderWorkForComponent(m, c)
  ELSE m

completeRenderWorkForChipConcurrent(m, c) == m

genMutableEffects(m, c, mode) ==
  IF mode = SYNCHRONOUS THEN completeRenderWorkForChipSync(m, c)
  ELSE IF mode = CONCURRENT THEN completeRenderWorkForChipConcurrent(m, c)
  ELSE m

\* A phase write that sends a completing chip back to PENDING.
setPhaseBackward(m, c, p) ==
  [m EXCEPT !.chip[c].phase = IF p = COMPLETE THEN PENDING ELSE p,
            !.trans = Append(@, <<c, IF p = COMPLETE THEN PENDING ELSE p>>)]

setPhase(m, c, p) ==
  [m EXCEPT !.chip[c].phase = p, !.trans = Append(@, <<c, p>>)]

\* The sibling the ascend step moves to: chip.prevSibling, or, when that is
\* null and the parent's children are an array, children[--currentChildIndex].
nextSibling(m, c) ==
  LET sibling == m.chip[c].prevSibling
      parent == m.chip[c].parent
  IN IF sibling = NULL /\ parent # NULL /\ m.chip[parent].children.isArr
     THEN LET idx == m.chip[parent].currentChildIndex - 1
              items == m.chip[parent].children.items
          IN [m EXCEPT !.chip[parent].currentChildIndex = idx,
                       !.ret = IF idx >= 0 /\ idx < Len(items) THEN items[idx + 1] ELSE UNDEF]
     ELSE [m EXCEPT !.ret = sibling]

linkSibling(m, c) ==
  LET sibling == m.ret IN
  IF ~Falsy(sibling)
  THEN [m EXCEPT !.chip[c].prevSibling = sibling,
                 !.chip[sibling].parent = m.chip[c].parent,
                 !.ret = sibling]
  ELSE [m EXCEPT !.ret = m.chip[c].parent]

completeChip(m, c, mode) ==
  LET m1 == setPhase(m, c, COMPLETE)
      m2 == genMutableEffects([m1 EXCEPT !.completions = Append(@, c)], c, mode)
  IN Then(m2, LAMBDA a : linkSibling(nextSibling(a, c), c))

\* A descend step that completes the chip without entering its children.
descendWithoutChildren(m, c, mode) == completeChip(m, c, mode)

descend(m, c, mode) ==
  LET lastChild == m.chip[c].lastChild IN
  IF Falsy(lastChild)
  THEN LET children == m.chip[c].children
           lastChipChild == getLastChipChild(children)
       IN IF ~Falsy(lastChipChild)
          THEN [m EXCEPT !.chip[c].lastChild = lastChipChild,
                         !.chip[lastChipChild].parent = c,
                         !.chip[c].currentChildIndex =
                             IF children.isArr THEN Len(children.items) - 1 ELSE 0,
                         !.ret = lastChipChild]
          ELSE completeChip(m, c, mode)
  ELSE [m EXCEPT !.ret = lastChild]

\* A unit that leaves a PENDING chip PENDING after its init work.
performChipWorkKeepPending(m, c, mode) ==
  IF c = NULL THEN [m EXCEPT !.ret = NULL]
  ELSE IF c = UNDEF THEN Throw(m)
  ELSE IF m.chip[c].phase = PENDING
  THEN Then(initRenderWorkForChip(m, c), LAMBDA a : descend(a, c, mode))
  ELSE IF m.chip[c].phase = INITIALIZE THEN completeChip(m, c, mode)
  ELSE [m EXCEPT !.ret = UNDEF]

performChipWork(m, c, mode) ==
  IF c = NULL THEN [m EXCEPT !.ret = NULL]
  ELSE IF c = UNDEF THEN Throw(m)                \* undefined.phase
  ELSE IF m.chip[c].phase = PENDING
  THEN Then(initRenderWorkForChip(m, c),
            LAMBDA a : descend(setPhase(a, c, INITIALIZE), c, mode))
  ELSE IF m.chip[c].phase = INITIALIZE THEN completeChip(m, c, mode)
  ELSE [m EXCEPT !.ret = UNDEF]

\* ------------------------------------------------------- payload queue
createRenderPayloadNode(container, type, context, auxiliaryContext, props, callback) ==
  [type |-> type, container |-> container, context |-> context,
   auxiliaryContext |-> auxiliaryContext, props |-> props, callback |-> callback]

\* An append that links the payload behind `last` and leaves `last` in place.
cacheRenderPayloadLastStays(m, payload) ==
  LET payloads == m.root.renderPayloads IN
  IF payloads.units # <<>>
  THEN [m EXCEPT !.root.renderPayloads =
          [units |-> Append(SubSeq(payloads.units, 1, payloads.last), payload),
           last |-> payloads.last]]
  ELSE [m EXCEPT !.root.renderPayloads = [units |-> <<payload>>, last |-> 1]]

\* chipRoot.renderPayloads is a linked list {first, last}; the append links
\* the payload behind `last` and moves `last` to it.
cacheRenderPayload(m, payload) ==
  LET payloads == m.root.renderPayloads IN
  IF payloads.units # <<>>
  THEN [m EXCEPT !.root.renderPayloads =
          [units |-> Append(SubSeq(payloads.units, 1, payloads.last), payload),
           last |-> payloads.last + 1]]
  ELSE [m EXCEPT !.root.renderPayloads = [units |-> <<payload>>, last |-> 1]]

RECURSIVE cacheRenderPayloads(_, _)
cacheRenderPayloads(m, payloads) ==
  IF payloads = <<>> THEN m
  ELSE cacheRenderPayloads(cacheRenderPayload(m, Head(payloads)), Tail(payloads))

\* ----------------------------------------------------- abandoned effects
\* The single-effect branch of cacheAbandonedEffect: `entry` joins the
\* root's abandoned list.
cacheSingleAbandoned(m, entry) ==
  LET effects == m.root.abandonedEffects IN
  IF effects.units # <<>>
  THEN [m EXCEPT !.root.abandonedEffects =
          [units |-> Append(SubSeq(effects.units, 1, effects.last), entry),
           last |-> effects.last + 1]]
  ELSE [m EXCEPT !.root.abandonedEffects = [units |-> <<entry>>, last |-> 1]]

RECURSIVE cacheAbandonedChain(_, _)
cacheAbandonedChain(m, units) ==
  IF units = <<>> THEN m
  ELSE cacheAbandonedChain(
         cacheSingleAbandoned(m, [effect |-> Head(units), isUnit |-> FALSE]),
         Tail(units))

\* cacheAbandonedEffect(list.effects?.first, chipRoot): `undefined` for a
\* chip without effects (the read of `.next` throws); a first unit whose
\* `next` is set is walked as a chain, each effect cached; a first unit
\* whose `next` is null is taken for an effect and cached as it is.
cacheAbandonedEffectOfList(m, list) ==
  IF list.units = <<>> THEN Throw(m)
  ELSE IF Len(list.units) >= 2 THEN cacheAbandonedChain(m, list.units)
  ELSE cacheSingleAbandoned(m, [effect |-> list.units[1], isUnit |-> TRUE])

\* cacheAbandonedEffect(getter.effect, chipRoot): UNDEF when the getter
\* carries no effect.
cacheAbandonedEffectOfGetter(m, prop) ==
  IF prop.effect = UNDEF THEN Throw(m)
  ELSE cacheSingleAbandoned(m, [effect |-> prop.effect, isUnit |-> FALSE])

\* --------------------------------------------------------- property diff
propIndex(props, name) ==
  IF \E i \in 1..Len(props) : props[i].name = name
  THEN CHOOSE i \in 1..Len(props) : props[i].name = name
  ELSE 0

\* The literal of a property value: the literal stored on a getter, the
\* value itself otherwise.
getPropLiteralValue(prop) == IF prop.dyn THEN prop.cached ELSE prop.v

\* The first loop of reconcileProps, over the new props from index i.
RECURSIVE reconcileNewProps(_, _, _, _)
reconcileNewProps(m, newChip, oldChip, i) ==
  IF i > Len(m.chip[newChip].props) THEN m
  ELSE
    LET prop == m.chip[newChip].props[i]
        m1 == IF prop.dyn
              THEN createRenderEffectForProp(m, m.chip[newChip].wormhole, newChip, i)
              ELSE m
        value == prop.v
        oldProps == m1.chip[oldChip].props
        j == propIndex(oldProps, prop.name)
    IN IF j # 0
       THEN LET m2 == IF oldProps[j].dyn
                      THEN cacheAbandonedEffectOfGetter(m1, oldProps[j]) ELSE m1
            IN Then(m2, LAMBDA a :
                 reconcileNewProps(
                   IF value # getPropLiteralValue(oldProps[j])
                   THEN [a EXCEPT !.ret = Append(@, [name |-> prop.name, v |-> value, delete |-> FALSE])]
                   ELSE a,
                   newChip, oldChip, i + 1))
       ELSE reconcileNewProps(
              [m1 EXCEPT !.ret = Append(@, [name |-> prop.name, v |-> value, delete |-> FALSE])],
              newChip, oldChip, i + 1)

\* The second loop, over the old props from index j: a prop the new set
\* lacks is marked PROP_TO_DELETE.
RECURSIVE reconcileOldProps(_, _, _, _)
reconcileOldProps(m, newChip, oldChip, j) ==
  IF j > Len(m.chip[oldChip].props) THEN m
  ELSE
    LET old == m.chip[oldChip].props[j] IN
    IF propIndex(m.chip[newChip].props, old.name) # 0
    THEN reconcileOldProps(m, newChip, oldChip, j + 1)
    ELSE LET m1 == IF old.dyn THEN cacheAbandonedEffectOfGetter(m, old) ELSE m
         IN Then(m1, LAMBDA a :
              reconcileOldProps(
                [a EXCEPT !.ret = Append(@, [name |-> old.name, v |-> UNDEF, delete |-> TRUE])],
                newChip, oldChip, j + 1))

\* The delta is left in `ret`, in the order the keys were written.
reconcileProps(m, newChip, oldChip) ==
  Then(reconcileNewProps([m EXCEPT !.ret = <<>>], newChip, oldChip, 1),
       LAMBDA a : reconcileOldProps(a, newChip, oldChip, 1))


\* ------------------------------------------------------- reconciliation
\* export let currentRenderingInstance = null; nothing assigns it.
currentRenderingInstance == NoInstance

\* (chip.compileFlags & STATIC && currentRenderingInstance.chip.compileFlags
\*  & PREDICTABLE) || (chip.maySkip && chip.wormhole); the result is left in
\* `ret`.  The read of `currentRenderingInstance.chip` throws on null.
isSkipReconcile(m, c) ==
  IF "STATIC" \in m.chip[c].compileFlags
  THEN IF currentRenderingInstance = NoInstance THEN Throw(m)
       ELSE IF "PREDICTABLE" \in m.chip[currentRenderingInstance.chip].compileFlags
            THEN [m EXCEPT !.ret = TRUE]
            ELSE [m EXCEPT !.ret = (m.chip[c].maySkip /\ ~Falsy(m.chip[c].wormhole))]
  ELSE [m EXCEPT !.ret = (m.chip[c].maySkip /\ ~Falsy(m.chip[c].wormhole))]

\* The component branch creates the instance and renders with collection
\* off; then the effects of the previous chip are abandoned.
initVirtualChip(m, c) ==
  LET t == m.chip[c].chipType
      wormhole == m.chip[c].wormhole
      m1 == IF t = CONDITION THEN initConditionChip(m, c)
            ELSE IF t = FRAGMENT THEN initIterableChip(m, c)
            ELSE IF t = CUSTOM_COMPONENT
            THEN LET instance == createComponentInstance(m.chip[c].tag, c)
                     a == [m EXCEPT !.chip[c].instance = instance, !.collecting = FALSE]
                 IN IF ~instance.hasRender THEN Throw(a)
                    ELSE [a EXCEPT !.chip[c].children = m.tmpl[c], !.collecting = TRUE]
            ELSE m
  IN Then(m1, LAMBDA a :
       IF ~Falsy(wormhole) THEN cacheAbandonedEffectOfList(a, a.chip[wormhole].effects)
       ELSE a)

hasDeletions(m, c) == m.chip[c].deletions.isArr

\* One UNMOUNT payload per deleted chip, then its effects are abandoned.
RECURSIVE genRenderPayloadsForDeletions(_, _, _)
genRenderPayloadsForDeletions(m, deletions, i) ==
  IF i > Len(deletions) THEN m
  ELSE LET deletion == deletions[i]
           payload == createRenderPayloadNode(m.chip[deletion].elm, UNMOUNT, deletion,
                                              NULL, <<>>, FALSE)
           m1 == cacheRenderPayload(m, payload)
           m2 == cacheAbandonedEffectOfList(m1, m1.chip[deletion].effects)
       IN Then(m2, LAMBDA a : genRenderPayloadsForDeletions(a, deletions, i + 1))

\* A variant that creates the element of the chip while the pass is still
\* running, instead of leaving every DOM call to the commit.
reconcileToGenRenderPayloadCreatingElement(m, c, auxiliaryChip) ==
  LET wormhole == m.chip[c].wormhole
      m1 == domCreateElement(m, c) IN
  IF ~Falsy(wormhole)
  THEN Then(reconcileProps(m1, c, wormhole), LAMBDA a :
         cacheRenderPayload(a,
           createRenderPayloadNode(a.chip[wormhole].elm, PATCH_PROP, c, NULL, a.ret, TRUE)))
  ELSE cacheRenderPayloads(m1,
         << createRenderPayloadNode(NULL, PATCH_PROP, c, NULL, m.chip[c].props, TRUE),
            createRenderPayloadNode(NULL, MOUNT, c, auxiliaryChip, <<>>, FALSE) >>)

\* With a previous chip: one PATCH_PROP payload carrying the delta.  With
\* none: a PATCH_PROP payload carrying the props, then a MOUNT payload with
\* the chip processed before as auxiliary context.
reconcileToGenRenderPayload(m, c, auxiliaryChip) ==
  LET wormhole == m.chip[c].wormhole IN
  IF ~Falsy(wormhole)
  THEN Then(reconcileProps(m, c, wormhole), LAMBDA a :
         cacheRenderPayload(a,
           createRenderPayloadNode(a.chip[wormhole].elm, PATCH_PROP, c, NULL, a.ret, TRUE)))
  ELSE cacheRenderPayloads(m,
         << createRenderPayloadNode(NULL, PATCH_PROP, c, NULL, m.chip[c].props, TRUE),
            createRenderPayloadNode(NULL, MOUNT, c, auxiliaryChip, <<>>, FALSE) >>)

completeReconcileLifecycle(m, c) ==
  IF m.chip[c].chipType = CUSTOM_COMPONENT
  THEN IF ~Falsy(m.chip[c].wormhole)
       THEN registerLifecycleHook(m, "UPDATED", c)
       ELSE registerLifecycleHook(m, "MOUNTED", c)
  ELSE m

completeReconcile(m, c, auxiliaryChip, isSkipable) ==
  LET m1 == [setPhase(m, c, COMPLETE) EXCEPT !.completions = Append(@, c)]
      m2 == IF isSkipable THEN m1
            ELSE LET a == IF hasDeletions(m1, c)
                          THEN genRenderPayloadsForDeletions(m1, m1.chip[c].deletions.items, 1)
                          ELSE m1
                 IN Then(Then(a, LAMBDA b : reconcileToGenRenderPayload(b, c, auxiliaryChip)),
                         LAMBDA b : completeReconcileLifecycle(b, c))
  IN Then(m2, LAMBDA a : linkSibling(nextSibling(a, c), c))

\* mapChipChildren(oldChildren, newChildren): the body is empty.
mapChipChildren(m, oldChildren, newChildren) == m

\* The branch of initReconcile for a chip that is not skipped.
initReconcileDive(m, c, lastChip) ==
  LET componentInst == IF m.chip[c].chipType = CUSTOM_COMPONENT
                       THEN m.chip[c].instance ELSE NoInstance
  IN Then(initVirtualChip(m, c), LAMBDA a :
       LET children == a.chip[c].children
           wormhole == a.chip[c].wormhole
           lastChild == getLastChipChild(children)
           a1 == IF Falsy(wormhole)
                 THEN LET b1 == IF componentInst # NoInstance
                                THEN invokeLifecycle(a, "INIT", componentInst.chip) ELSE a
                          b2 == cacheRenderPayload(b1,
                                  createRenderPayloadNode(NULL, CREATE_ELEMENT, c, NULL, <<>>, TRUE))
                      IN IF componentInst # NoInstance
                         THEN invokeLifecycle(b2, "WILL_MOUNT", componentInst.chip) ELSE b2
                 ELSE IF componentInst # NoInstance
                      THEN invokeLifecycle(a, "WILL_UPDATE", componentInst.chip) ELSE a
       IN IF ~Falsy(lastChild)
          THEN LET a2 == [a1 EXCEPT !.chip[c].lastChild = lastChild,
                                    !.chip[lastChild].parent = c,
                                    !.chip[c].currentChildIndex =
                                        IF children.isArr THEN Len(children.items) - 1 ELSE 0]
               IN IF Falsy(wormhole) THEN Throw(a2)   \* wormhole.children
                  ELSE [mapChipChildren(a2, a2.chip[wormhole].children, children)
                        EXCEPT !.ret = lastChild]
          ELSE completeReconcile(a1, c, lastChip, FALSE))

initReconcile(m, c, lastChip) ==
  LET m1 == setPhase(m, c, INITIALIZE) IN
  Then(isSkipReconcile(m1, c), LAMBDA a :
    IF a.ret THEN completeReconcile(a, c, lastChip, TRUE)
    ELSE initReconcileDive(a, c, lastChip))

\* switch (chip.phase): no case for COMPLETE, nextChip stays undefined.
reconcile(m, c, lastChip) ==
  IF Falsy(c) THEN Throw(m)                      \* null.phase
  ELSE IF m.chip[c].phase = PENDING THEN initReconcile(m, c, lastChip)
  ELSE IF m.chip[c].phase = INITIALIZE THEN completeReconcile(m, c, lastChip, FALSE)
  ELSE [m EXCEPT !.ret = UNDEF]


\* ------------------------------------------------------------ the state
VARIABLES
  chip,          \* chip id -> chip record
  chipRoot,      \* the ChipRoot: payload queue, abandoned effects, hook caches
  dom,           \* the calls made on the DOM adapter, in order
  hooks,         \* the lifecycle hooks invoked, in order
  collecting,    \* the reactive system's dependency collection switch
  trans,         \* the phase writes <<chip, phase>>, in order
  completions,   \* the chips completeChip / completeReconcile ran on, in order
  nextEffect,    \* the next render-effect identity
  tmpl,          \* chip id -> the children its template or render yields
  chip0,         \* the chips as they were handed to the traversal
  mode,          \* the render mode of the traversal
  pc,            \* where the driver is
  ongoing,       \* the chip the next unit is bound to
  pauses,        \* times the scheduler ran other work between two units
  originalChip,  \* the start chip of the reconciliation pass
  lastChip,      \* the chip the previous reconcile job was bound to
  needCommit,    \* whether the pass ends with the commit continuation
  delta,         \* the delta a direct reconcileProps call returned
  jobs,          \* the jobs genReconcileEffects registered, in order
  cached,        \* the payloads handed to direct cacheRenderPayload calls, in order
  sourceGetter   \* the iteration source getter: the cached literal and the last read

vars == <<chip, chipRoot, dom, hooks, collecting, trans, completions,
          nextEffect, tmpl, chip0, mode, pc, ongoing, pauses,
          originalChip, lastChip, needCommit, delta, jobs, cached, sourceGetter>>

inputs == <<tmpl, chip0, mode, originalChip, needCommit>>

M == [chip |-> chip, root |-> chipRoot, dom |-> dom, hooks |-> hooks,
      collecting |-> collecting, trans |-> trans, completions |-> completions,
      nextEffect |-> nextEffect, tmpl |-> tmpl, threw |-> FALSE, ret |-> NULL]

Install(m) ==
  /\ chip' = m.chip
  /\ chipRoot' = m.root
  /\ dom' = m.dom
  /\ hooks' = m.hooks
  /\ collecting' = m.collecting
  /\ trans' = m.trans
  /\ completions' = m.completions
  /\ nextEffect' = m.nextEffect

newChipRoot(strategy) ==
  [renderPayloads |-> EmptyList, abandonedEffects |-> EmptyList,
   MOUNTED |-> <<>>, UPDATED |-> <<>>,
   mutableHookStrategy |-> strategy, isStable |-> TRUE]

\* ------------------------------------------------------ first-render inputs
\* Ordered trees over chips 1..n, chip 1 the root: tp[i] is the parent of i.
TreeShapes(n) ==
  {tp \in [1..n -> 0..(n - 1)] : tp[1] = 0 /\ \A i \in 2..n : tp[i] \in 1..(i - 1)}

RECURSIVE childSeq(_, _, _)
childSeq(tp, p, i) ==
  IF i > Len(tp) THEN <<>>
  ELSE (IF tp[i] = p THEN <<i>> ELSE <<>>) \o childSeq(tp, p, i + 1)

\* A container of two or more chips is an array; one chip is held bare or,
\* with `wrap`, in an array; no chip is an absent container or an empty array.
container(items, wrap) ==
  [isArr |-> (Len(items) >= 2 \/ wrap), items |-> items]

ElementProps ==
  { <<>>, << staticProp("class", 1), dynamicProp("title", 2, UNDEF) >> }

\* Elements carry their children; a component, condition or iteration chip
\* gets them from its render.
firstRenderChip(kind, tag, props, children, flagged) ==
  [createChip(kind, tag,
              IF kind = NATIVE_DOM THEN props ELSE <<>>,
              IF kind = NATIVE_DOM THEN children ELSE NoChildren)
   EXCEPT !.isChip = flagged]

InitRender ==
  \E n \in 1..MaxChips :
  \E tp \in TreeShapes(n), kinds \in [1..n -> ChipKinds], wrap \in BOOLEAN,
     tag \in ComponentTags, props \in ElementProps,
     md \in {SYNCHRONOUS, CONCURRENT} :
  \* the hook strategy is read by the synchronous completion only, the
  \* '__n_isChip' marker by chipPerformingJob only
  \E strategy \in IF md = SYNCHRONOUS THEN Strategies ELSE {"ON_IDLE"},
     flagged \in IF md = CONCURRENT THEN BOOLEAN ELSE {FALSE} :
    /\ tmpl = [c \in 1..n |-> container(childSeq(tp, c, 1), wrap)]
    /\ chip = [c \in 1..n |-> firstRenderChip(kinds[c], tag, props, tmpl[c], flagged)]
    /\ chip0 = chip
    /\ chipRoot = newChipRoot(strategy)
    /\ dom = <<>>
    /\ hooks = <<>>
    /\ collecting = TRUE
    /\ trans = <<>>
    /\ completions = <<>>
    /\ nextEffect = 1
    /\ mode = md
    /\ pc = IF md = SYNCHRONOUS THEN "sync" ELSE "job"
    /\ ongoing = 1
    /\ pauses = 0
    /\ originalChip = NULL
    /\ lastChip = UNDEF
    /\ needCommit = FALSE
    /\ delta = <<>>
    /\ jobs = <<>>
    /\ cached = <<>>
    /\ sourceGetter = NoSourceGetter

\* -------------------------------------------------------- performRenderSync
\* One turn of `while (ongoingChip !== null)`.
SyncStep ==
  /\ pc = "sync"
  /\ ongoing # NULL
  /\ LET m == performChipWork(M, ongoing, SYNCHRONOUS) IN
       /\ Install(m)
       /\ pc' = IF m.threw THEN "thrown" ELSE "sync"
       /\ ongoing' = IF m.threw THEN ongoing ELSE m.ret
  /\ UNCHANGED <<inputs, pauses, lastChip, delta, jobs, cached, sourceGetter>>

\* After the loop: the cached MOUNTED hooks run as one batch and the cache
\* is reset.
SyncFlush ==
  /\ pc = "sync"
  /\ ongoing = NULL
  /\ LET m == invokeCached(M, "MOUNTED", chipRoot.MOUNTED) IN
       Install([m EXCEPT !.root.MOUNTED = <<>>])
  /\ pc' = "returned"
  /\ UNCHANGED <<inputs, ongoing, pauses, lastChip, delta, jobs, cached, sourceGetter>>

\* -------------------------------------------------- registerOngoingChipWork
\* next && next[ChipFlags.IS_CHIP]
isChipFlagged(m, next) == ~Falsy(next) /\ m.chip[next].isChip

\* chipPerformingJob: one unit, then the continuation bound to the next chip
\* or null.
ChipPerformingJob ==
  /\ pc = "job"
  /\ LET m == performChipWork(M, ongoing, CONCURRENT) IN
       /\ Install(m)
       /\ pc' = IF m.threw THEN "thrown"
                ELSE IF isChipFlagged(m, m.ret) THEN "job" ELSE "done"
       /\ ongoing' = IF m.threw THEN ongoing ELSE m.ret
  /\ UNCHANGED <<inputs, pauses, lastChip, delta, jobs, cached, sourceGetter>>

\* The scheduler runs other work between two units.
Interleave ==
  /\ pc = "job"
  /\ pauses < MaxPauses
  /\ pauses' = pauses + 1
  /\ UNCHANGED <<chip, chipRoot, dom, hooks, collecting, trans, completions,
                 nextEffect, inputs, pc, ongoing, lastChip, delta, jobs, cached, sourceGetter>>

Next == SyncStep \/ SyncFlush \/ ChipPerformingJob \/ Interleave

Spec == InitRender /\ [][Next]_vars

\* ---------------------------------------------- registerOngoingReconcileWork
MaxNewChips == 3       \* chips of the new subtree handed to a reconciliation pass
MaxOldEffects == 2     \* render effects created for the previous chip

\* The chain of the previous chip's effects after k cacheEffectToChip calls
\* in its own render: the list's `last` stays on the first unit, so the
\* chain read from `first` holds the first effect and the latest one.
oldEffects(old, k) ==
  IF k = 0 THEN <<>>
  ELSE IF k = 1 THEN << [id |-> 1, kind |-> "prop", chip |-> old, name |-> ""] >>
  ELSE << [id |-> 1, kind |-> "prop", chip |-> old, name |-> ""],
          [id |-> k, kind |-> "prop", chip |-> old, name |-> ""] >>

reconcileNewChip(kind, tag, children, flags) ==
  [createChip(kind, tag,
              IF kind = NATIVE_DOM THEN << staticProp("class", 1) >> ELSE <<>>,
              IF kind = NATIVE_DOM THEN children ELSE NoChildren)
   EXCEPT !.compileFlags = flags]

\* The previous chip: rendered and committed, COMPLETE, owning a handle.
reconcileOldChip(kind, tag, self, k) ==
  [createChip(kind, tag,
              IF kind = NATIVE_DOM THEN << staticProp("class", 2) >> ELSE <<>>,
              NoChildren)
   EXCEPT !.phase = COMPLETE, !.elm = 1,
          !.effects = [units |-> oldEffects(self, k), last |-> IF k = 0 THEN 0 ELSE 1]]

\* performReconcileWork(oldChip, newChip, chipRoot, needCommit): the link
\* newChip.wormhole = oldChip, then the first job is registered.
InitReconcile ==
  \E n \in 1..MaxNewChips :
  \E tp \in TreeShapes(n), kinds \in [1..n -> ChipKinds], static \in {0, 1, n},
     hasOld \in BOOLEAN, commit \in BOOLEAN :
  \E tag \in IF \E c \in 1..n : kinds[c] = CUSTOM_COMPONENT
             THEN ComponentTags ELSE {"function"},
     k \in IF hasOld THEN 0..MaxOldEffects ELSE {0},
     skip \in IF hasOld THEN BOOLEAN ELSE {FALSE} :
    LET old == n + 1
        ids == IF hasOld THEN 1..(n + 1) ELSE 1..n
    IN
    /\ tmpl = [c \in ids |-> IF c = old THEN NoChildren
                             ELSE container(childSeq(tp, c, 1), FALSE)]
    /\ chip = [c \in ids |->
                 IF c = old THEN reconcileOldChip(kinds[1], tag, old, k)
                 ELSE [reconcileNewChip(kinds[c], tag, tmpl[c],
                                        IF c = static THEN {"STATIC"} ELSE {})
                       EXCEPT !.wormhole = IF c = 1 /\ hasOld THEN old ELSE NULL,
                              !.maySkip = (c = 1 /\ skip)]]
    /\ chip0 = chip
    /\ chipRoot = newChipRoot("ON_IDLE")
    /\ dom = <<>>
    /\ hooks = <<>>
    /\ collecting = TRUE
    /\ trans = <<>>
    /\ completions = <<>>
    /\ nextEffect = k + 1
    /\ mode = CONCURRENT
    /\ pc = "reconcile"
    /\ ongoing = 1
    /\ pauses = 0
    /\ originalChip = 1
    /\ lastChip = UNDEF
    /\ needCommit = commit
    /\ delta = <<>>
    /\ jobs = <<>>
    /\ cached = <<>>
    /\ sourceGetter = NoSourceGetter

\* reconcileJob on the start chip still PENDING, or on any other chip: one
\* reconcile unit, then the job bound to the chip it returned.
ReconcileUnit ==
  /\ pc = "reconcile"
  /\ IF ongoing = originalChip THEN chip[ongoing].phase = PENDING ELSE TRUE
  /\ LET m == reconcile(M, ongoing, lastChip) IN
       /\ Install(m)
       /\ pc' = IF m.threw THEN "thrown" ELSE "reconcile"
       /\ ongoing' = IF m.threw THEN ongoing ELSE m.ret
       /\ lastChip' = IF m.threw THEN lastChip ELSE ongoing
  /\ UNCHANGED <<inputs, pauses, delta, jobs, cached, sourceGetter>>

\* reconcileJob back on the start chip: the commit continuation or null.
ReconcileEnd ==
  /\ pc = "reconcile"
  /\ ongoing = originalChip
  /\ chip[ongoing].phase # PENDING
  /\ pc' = IF needCommit THEN "commit" ELSE "done"
  /\ UNCHANGED <<chip, chipRoot, dom, hooks, collecting, trans, completions,
                 nextEffect, inputs, ongoing, pauses, lastChip, delta, jobs, cached, sourceGetter>>

\* performCommitWork: the queue is applied front to back and cleared.
applyPayload(payload) ==
  [op |-> "commit", chip |-> payload.context, elm |-> payload.container,
   to |-> NULL, name |-> "", literal |-> FALSE, value |-> payload.type]

performCommitWork(m) ==
  [m EXCEPT !.dom = @ \o [i \in 1..Len(m.root.renderPayloads.units) |->
                            applyPayload(m.root.renderPayloads.units[i])],
            !.root.renderPayloads = EmptyList]

Commit ==
  /\ pc = "commit"
  /\ Install(performCommitWork(M))
  /\ pc' = "done"
  /\ UNCHANGED <<inputs, ongoing, pauses, lastChip, delta, jobs, cached, sourceGetter>>

NextReconcile == ReconcileUnit \/ ReconcileEnd \/ Commit

SpecReconcile == InitReconcile /\ [][NextReconcile]_vars

\* A first render or a reconciliation pass.
\* The guard of ReconcileUnit: a job is held by the scheduler and it is not
\* the terminal call on the start chip.
UnitEnabled ==
  /\ pc = "reconcile"
  /\ (ongoing = originalChip => chip[ongoing].phase = PENDING)

\* The scheduler calls every job it holds: the job a unit returned, the
\* terminal call and the commit continuation are each run in the end.  The
\* last conjunct is weak fairness of ReconcileUnit, written with its guard.
SpecReconcileFair ==
  /\ SpecReconcile
  /\ WF_vars(ReconcileEnd) /\ WF_vars(Commit)
  /\ ([]<>(~UnitEnabled) \/ []<><<ReconcileUnit>>_vars)

SpecPasses == (InitRender \/ InitReconcile) /\ [][Next \/ NextReconcile]_vars

\* ------------------------------------------------------- reconcileProps
MaxPropValue == 2      \* the literals a property takes are 1..MaxPropValue

PropNames == <<"a", "b">>

\* What a property map holds under one name in the new props: nothing, a
\* literal, or a fresh getter (no literal stored on it yet).
NewPropChoices(name) ==
  {<<>>} \cup {<<staticProp(name, v)>> : v \in 1..MaxPropValue}
         \cup {<<dynamicProp(name, v, UNDEF)>> : v \in 1..MaxPropValue}

\* ... and in the old props: a getter there went through
\* createRenderEffectForProp in the previous render, which stored its
\* literal on it and wrote no `effect` property.
OldPropChoices(name) ==
  {<<>>} \cup {<<staticProp(name, v)>> : v \in 1..MaxPropValue}
         \cup {<<dynamicProp(name, v, v)>> : v \in 1..MaxPropValue}

InitProps ==
  \E na \in NewPropChoices(PropNames[1]), nb \in NewPropChoices(PropNames[2]),
     oa \in OldPropChoices(PropNames[1]), ob \in OldPropChoices(PropNames[2]) :
    /\ tmpl = [c \in 1..2 |-> NoChildren]
    /\ chip = [c \in 1..2 |->
                 IF c = 1
                 THEN [createChip(NATIVE_DOM, "function", na \o nb, NoChildren)
                       EXCEPT !.wormhole = 2, !.phase = INITIALIZE]
                 ELSE [createChip(NATIVE_DOM, "function", oa \o ob, NoChildren)
                       EXCEPT !.phase = COMPLETE, !.elm = 1]]
    /\ chip0 = chip
    /\ chipRoot = newChipRoot("ON_IDLE")
    /\ dom = <<>>
    /\ hooks = <<>>
    /\ collecting = TRUE
    /\ trans = <<>>
    /\ completions = <<>>
    /\ nextEffect = 1
    /\ mode = CONCURRENT
    /\ pc = "props"
    /\ ongoing = 1
    /\ pauses = 0
    /\ originalChip = 1
    /\ lastChip = UNDEF
    /\ needCommit = FALSE
    /\ delta = <<>>
    /\ jobs = <<>>
    /\ cached = <<>>
    /\ sourceGetter = NoSourceGetter

\* reconcileProps(newChip, newChip.wormhole, chipRoot)
ReconcilePropsCall ==
  /\ pc = "props"
  /\ LET m == reconcileProps(M, ongoing, chip[ongoing].wormhole) IN
       /\ Install(m)
       /\ pc' = IF m.threw THEN "propsThrown" ELSE "propsReturned"
       /\ delta' = m.ret
  /\ UNCHANGED <<inputs, ongoing, pauses, lastChip, jobs, cached, sourceGetter>>

SpecProps == InitProps /\ [][ReconcilePropsCall]_vars

\* ------------------------------------------------- genReconcileEffects
MaxDispatches == 2     \* dispatches of property effects in one behaviour

\* A job that queues the chip's whole property set instead of the delta.
patchPropJobAllProps(m, job) ==
  cacheRenderPayload(m,
    createRenderPayloadNode(UNDEF, PATCH_PROP, job.chip, NULL,
      [i \in 1..Len(m.chip[job.chip].props) |->
         [name |-> m.chip[job.chip].props[i].name,
          v |-> m.chip[job.chip].props[i].v, delete |-> FALSE]], FALSE))

\* The job genReconcileEffects registers for renderData.props: one
\* PATCH_PROP payload on wormhole?.elm carrying the props of the dispatch.
patchPropJob(m, job) ==
  cacheRenderPayload(m,
    createRenderPayloadNode(IF Falsy(job.wormhole) THEN UNDEF ELSE m.chip[job.wormhole].elm,
                            PATCH_PROP, job.chip, NULL, job.props, FALSE))

\* genReconcileEffects(chip, chipRoot, {props}, needCommit): chip.wormhole
\* is read now, the job runs when the scheduler takes it.
genReconcileEffectsProps(js, m, c, props, commit) ==
  Append(js, [chip |-> c, wormhole |-> m.chip[c].wormhole, props |-> props,
              needCommit |-> commit, returned |-> FALSE])

\* commitProps(chip.elm, props), the direct patch of synchronous mode.
commitProps(m, elm, props) ==
  [m EXCEPT !.dom = @ \o [i \in 1..Len(props) |->
                            [op |-> "commitProps", chip |-> NULL, elm |-> elm, to |-> NULL,
                             name |-> props[i].name, literal |-> TRUE, value |-> props[i].v]]]

\* An element chip after its first render: two dynamic attributes with the
\* literals stored on their getters, their effects in the chip's list.
InitDispatch ==
  \E va \in 1..MaxPropValue, vb \in 1..MaxPropValue, md \in {SYNCHRONOUS, CONCURRENT} :
    /\ tmpl = [c \in 1..1 |-> NoChildren]
    /\ chip = [c \in 1..1 |->
                 [createChip(NATIVE_DOM, "function",
                             << dynamicProp(PropNames[1], va, va),
                                dynamicProp(PropNames[2], vb, vb) >>, NoChildren)
                  EXCEPT !.phase = COMPLETE, !.elm = 1,
                         !.effects = [units |-> oldEffects(1, 2), last |-> 1]]]
    /\ chip0 = chip
    /\ chipRoot = newChipRoot("ON_IDLE")
    /\ dom = <<>>
    /\ hooks = <<>>
    /\ collecting = TRUE
    /\ trans = <<>>
    /\ completions = <<>>
    /\ nextEffect = 3
    /\ mode = md
    /\ pc = "await"
    /\ ongoing = NULL
    /\ pauses = 0
    /\ originalChip = NULL
    /\ lastChip = UNDEF
    /\ needCommit = FALSE
    /\ delta = <<>>
    /\ jobs = <<>>
    /\ cached = <<>>
    /\ sourceGetter = NoSourceGetter

\* A write to the source of attribute i of the chip: the collector runs the
\* getter and stores the literal on it, then the dispatcher of
\* createRenderEffectForProp patches at once (synchronous mode) or hands
\* {props: {[name]: literal}} to genReconcileEffects.
DispatchPropEffect ==
  /\ pc \in {"await", "patchCommit"}
  /\ (IF mode = SYNCHRONOUS THEN Len(dom) ELSE Len(jobs)) < MaxDispatches
  /\ \E i \in 1..Len(chip[1].props), v \in 1..MaxPropValue, isEndInLoop \in BOOLEAN :
       LET name == chip[1].props[i].name
           props == << [name |-> name, v |-> v, delete |-> FALSE] >>
           m == [M EXCEPT !.chip[1].props[i].v = v, !.chip[1].props[i].cached = v]
       IN IF mode = SYNCHRONOUS
          THEN /\ Install(commitProps(m, m.chip[1].elm, props))
               /\ jobs' = jobs
          ELSE /\ Install(m)
               /\ jobs' = genReconcileEffectsProps(jobs, m, 1, props, isEndInLoop)
  /\ UNCHANGED <<inputs, pc, ongoing, pauses, lastChip, delta, cached, sourceGetter>>

\* The scheduler takes the oldest registered job; the job returns the
\* commit continuation or null.
PatchPropJob ==
  /\ pc = "await"
  /\ \E j \in 1..Len(jobs) :
       /\ ~jobs[j].returned
       /\ \A k \in 1..(j - 1) : jobs[k].returned
       /\ Install(patchPropJob(M, jobs[j]))
       /\ jobs' = [jobs EXCEPT ![j].returned = TRUE]
       /\ pc' = IF jobs[j].needCommit THEN "patchCommit" ELSE "await"
  /\ UNCHANGED <<inputs, ongoing, pauses, lastChip, delta, cached, sourceGetter>>

\* The commit continuation a patch job returned.
PatchCommit ==
  /\ pc = "patchCommit"
  /\ Install(performCommitWork(M))
  /\ pc' = "await"
  /\ UNCHANGED <<inputs, ongoing, pauses, lastChip, delta, jobs, cached, sourceGetter>>

NextDispatch == DispatchPropEffect \/ PatchPropJob \/ PatchCommit

SpecDispatch == InitDispatch /\ [][NextDispatch]_vars

\* ------------------------------------ a pass over new siblings of a paired chip
MaxSiblings == 3       \* new children under the start chip of the pass

\* The chip id of the child of the i-th sibling, the siblings being 2..s+1.
siblingChild(has, s, i) == s + 1 + Cardinality({j \in 1..i : has[j]})

\* performReconcileWork(oldChip, newChip, ...): newChip an element whose
\* children are s chips without previous pairs, some with a child of their
\* own, the components function components; oldChip a rendered element
\* owning two effects.
InitSiblings ==
  \E s \in 2..MaxSiblings, commit \in BOOLEAN :
  \E kinds \in [1..s -> ChipKinds], has \in [1..s -> BOOLEAN] :
    LET n == s + 1 + Cardinality({j \in 1..s : has[j]})
        old == n + 1
        tag == "function"
    IN
    /\ tmpl = [c \in 1..old |->
                 IF c = 1 THEN [isArr |-> TRUE, items |-> [i \in 1..s |-> i + 1]]
                 ELSE IF c \in 2..(s + 1) /\ has[c - 1]
                 THEN container(<<siblingChild(has, s, c - 1)>>, FALSE)
                 ELSE NoChildren]
    /\ chip = [c \in 1..old |->
                 IF c = old THEN reconcileOldChip(NATIVE_DOM, tag, old, 2)
                 ELSE IF c = 1
                 THEN [reconcileNewChip(NATIVE_DOM, tag, tmpl[c], {}) EXCEPT !.wormhole = old]
                 ELSE IF c \in 2..(s + 1)
                 THEN reconcileNewChip(kinds[c - 1], tag, tmpl[c], {})
                 ELSE reconcileNewChip(NATIVE_DOM, tag, NoChildren, {})]
    /\ chip0 = chip
    /\ chipRoot = newChipRoot("ON_IDLE")
    /\ dom = <<>>
    /\ hooks = <<>>
    /\ collecting = TRUE
    /\ trans = <<>>
    /\ completions = <<>>
    /\ nextEffect = 3
    /\ mode = CONCURRENT
    /\ pc = "reconcile"
    /\ ongoing = 1
    /\ pauses = 0
    /\ originalChip = 1
    /\ lastChip = UNDEF
    /\ needCommit = commit
    /\ delta = <<>>
    /\ jobs = <<>>
    /\ cached = <<>>
    /\ sourceGetter = NoSourceGetter

SpecSiblings == InitSiblings /\ [][NextReconcile]_vars

\* ------------------------------------- the dispatch of an iteration effect
MaxItems == 3          \* keyed items of the iteration source
MaxSources == 2        \* arrays the iteration source may refer to

Perms(s) == {f \in [1..s -> 1..s] : \A i \in 1..s : \A j \in 1..s : f[i] = f[j] => i = j}

\* cloneChip(chip, props, children) copies tag, key, children (as a plain
\* object, not an array), parent and elm; the props and children handed in
\* are not used and no other field is written.
cloneChip(ch, props, children) ==
  [createChip(UNDEF, ch.tag, <<>>, [isArr |-> FALSE, items |-> ch.children.items])
   EXCEPT !.key = ch.key, !.parent = ch.parent, !.elm = ch.elm,
          !.phase = UNDEF, !.wormhole = UNDEF, !.instance = NoInstance,
          !.prevSibling = UNDEF, !.lastChild = UNDEF]

\* An iteration chip after its first render: its effect in its list, its
\* children the element chips render produced for the keys in source order.
InitIterable ==
  \E s \in 1..MaxItems : \E order \in Perms(s) :
    /\ tmpl = [c \in 1..(s + 1) |->
                 IF c = 1 THEN [isArr |-> TRUE, items |-> [i \in 1..s |-> i + 1]]
                 ELSE NoChildren]
    /\ chip = [c \in 1..(s + 1) |->
                 IF c = 1
                 THEN [createChip(FRAGMENT, "function", <<>>, tmpl[1])
                       EXCEPT !.phase = COMPLETE, !.lastChild = s + 1,
                              !.currentChildIndex = 0,
                              !.effects = [units |-> oldEffects(1, 1), last |-> 1]]
                 ELSE [createChip(NATIVE_DOM, "function", <<>>, NoChildren)
                       EXCEPT !.phase = COMPLETE, !.elm = c, !.parent = 1,
                              !.key = order[c - 1], !.maySkip = TRUE]]
    /\ chip0 = chip
    /\ chipRoot = newChipRoot("ON_IDLE")
    /\ dom = <<>>
    /\ hooks = <<>>
    /\ collecting = TRUE
    /\ trans = <<>>
    /\ completions = <<>>
    /\ nextEffect = 2
    /\ mode = CONCURRENT
    /\ pc = "await"
    /\ ongoing = NULL
    /\ pauses = 0
    /\ originalChip = NULL
    /\ lastChip = UNDEF
    /\ needCommit = FALSE
    /\ delta = <<>>
    /\ jobs = <<>>
    /\ cached = <<>>
    /\ sourceGetter = [value |-> 1, previous |-> UNDEF, read |-> 1]

\* setLiteralForDynamicValue(literal, valueContainer)
setLiteralForDynamicValue(literal, valueContainer) ==
  [valueContainer EXCEPT !.value = literal]

\* The collector of createRenderEffectForIterableChip, as far as the source
\* getter goes: the literal read is stored on the getter, and then each
\* child is given maySkip = (sourceLiteral === sourceGetter.value).
iterableCollector(getter, sourceLiteral) ==
  LET stored == setLiteralForDynamicValue(sourceLiteral, getter) IN
  [getter |-> [stored EXCEPT !.previous = getter.value, !.read = sourceLiteral],
   maySkip |-> (sourceLiteral = stored.value)]

\* The iteration source is written: the array `source` (the one read before,
\* changed in place, or another one) now holds the same keys in the order
\* `order`.  The collector renders one chip per item and stores the array
\* on chip.children; the dispatcher hands {children} to
\* genReconcileEffects, which clones the chip and calls
\* performReconcileWork(chip, newChip, chipRoot, needCommit): the wormhole is
\* linked and the first reconcile job registered.
ReplaceSource ==
  /\ pc = "await"
  /\ originalChip = NULL
  /\ \E order \in Perms(Len(chip[1].children.items)), isEndInLoop \in BOOLEAN,
        source \in 1..MaxSources :
       LET s == Len(chip[1].children.items)
           newChip == 2 * s + 2
           collected == iterableCollector(sourceGetter, source)
           rendered == [c \in 1..(2 * s + 1) |->
                          IF c = 1
                          THEN [chip[1] EXCEPT !.children =
                                  [isArr |-> TRUE, items |-> [i \in 1..s |-> s + 1 + i]]]
                          ELSE IF c <= s + 1 THEN chip[c]
                          ELSE [createChip(NATIVE_DOM, "function", <<>>, NoChildren)
                                EXCEPT !.key = order[c - s - 1],
                                       !.maySkip = collected.maySkip]]
       IN /\ chip' = [c \in 1..newChip |->
                        IF c = newChip
                        THEN [cloneChip(rendered[1], rendered[1].props, rendered[1].children)
                              EXCEPT !.wormhole = 1]
                        ELSE rendered[c]]
          /\ tmpl' = [c \in 1..newChip |->
                        IF c \in {1, newChip} THEN rendered[1].children ELSE NoChildren]
          /\ sourceGetter' = collected.getter
          /\ originalChip' = newChip
          /\ ongoing' = newChip
          /\ needCommit' = isEndInLoop
  /\ pc' = "reconcile"
  /\ UNCHANGED <<chipRoot, dom, hooks, collecting, trans, completions, nextEffect,
                 chip0, mode, pauses, lastChip, delta, jobs, cached>>

\* The clone carries no phase, so its job takes the terminal branch.
NextIterable == ReplaceSource \/ ReconcileEnd \/ Commit

SpecIterable == InitIterable /\ [][NextIterable]_vars

\* ------------------------------------------------- performReconcileWork
MaxKeys == 2           \* chip keys are 1..MaxKeys

ElementTags == {"div", "span"}

isSameChip(vn1, vn2) == vn1.tag = vn2.tag /\ vn1.key = vn2.key

MaxDeletions == 2      \* chips in the deletions list of the new chip

\* Two chips a caller is about to hand to performReconcileWork: chip 2 a
\* rendered element owning two effects, chip 1 a new element, a leaf or the
\* parent of the new leaf 3, its deletions list absent or holding the chips
\* 4.. in order, each a rendered child of chip 2 owning some effects or none.
InitPairs ==
  \E newTag \in ElementTags, oldTag \in ElementTags,
     newKey \in 1..MaxKeys, oldKey \in 1..MaxKeys,
     hasChild \in BOOLEAN, dels \in 0..MaxDeletions, commit \in BOOLEAN :
  \E delEffects \in [4..(3 + dels) -> 0..MaxOldEffects] :
    LET ids == {1, 2} \cup (IF hasChild THEN {3} ELSE {}) \cup (4..(3 + dels)) IN
    /\ tmpl = [c \in ids |-> IF c = 1 /\ hasChild THEN container(<<3>>, FALSE)
                             ELSE NoChildren]
    /\ chip = [c \in ids |->
                 IF c = 2
                 THEN [reconcileOldChip(NATIVE_DOM, oldTag, 2, 2) EXCEPT !.key = oldKey]
                 ELSE IF c = 1
                 THEN [reconcileNewChip(NATIVE_DOM, newTag, tmpl[1], {})
                       EXCEPT !.key = newKey,
                              !.deletions = IF dels > 0
                                           THEN container([i \in 1..dels |-> 3 + i], TRUE)
                                           ELSE NoChildren]
                 ELSE IF c >= 4
                 THEN [reconcileOldChip(NATIVE_DOM, "div", c, delEffects[c])
                       EXCEPT !.elm = c, !.parent = 2]
                 ELSE reconcileNewChip(NATIVE_DOM, "div", NoChildren, {})]
    /\ chip0 = chip
    /\ chipRoot = newChipRoot("ON_IDLE")
    /\ dom = <<>>
    /\ hooks = <<>>
    /\ collecting = TRUE
    /\ trans = <<>>
    /\ completions = <<>>
    /\ nextEffect = 3
    /\ mode = CONCURRENT
    /\ pc = "entry"
    /\ ongoing = NULL
    /\ pauses = 0
    /\ originalChip = 1
    /\ lastChip = UNDEF
    /\ needCommit = commit
    /\ delta = <<>>
    /\ jobs = <<>>
    /\ cached = <<>>
    /\ sourceGetter = NoSourceGetter

\* performReconcileWork(oldChip, newChip, chipRoot, needCommit): the link is
\* written whatever the two chips are, then the first job is registered.
PerformReconcileWork ==
  /\ pc = "entry"
  /\ chip' = [chip EXCEPT ![originalChip].wormhole = 2]
  /\ ongoing' = originalChip
  /\ pc' = "reconcile"
  /\ UNCHANGED <<chipRoot, dom, hooks, collecting, trans, completions, nextEffect,
                 inputs, pauses, lastChip, delta, jobs, cached, sourceGetter>>

SpecPairs == InitPairs /\ [][PerformReconcileWork \/ NextReconcile]_vars

\* ------------------------------------------- the children of a chip pair
MaxPairedChildren == 2 \* children of the new chip, and of the previous chip

\* A pass registered on the element chip 1 linked to its rendered pair: the
\* new chip has n keyed leaf children (chips 2..n+1), the previous chip
\* (chip n+2) has o keyed rendered children (the chips after it).
InitChildren ==
  \E n \in 1..MaxPairedChildren, o \in 1..MaxPairedChildren, commit \in BOOLEAN :
  \E newKeys \in [1..n -> 1..MaxKeys], oldKeys \in [1..o -> 1..MaxKeys] :
    LET old == n + 2
        ids == 1..(old + o)
    IN
    /\ tmpl = [c \in ids |->
                 IF c = 1 THEN container([i \in 1..n |-> i + 1], FALSE)
                 ELSE IF c = old THEN container([i \in 1..o |-> old + i], FALSE)
                 ELSE NoChildren]
    /\ chip = [c \in ids |->
                 IF c = 1
                 THEN [reconcileNewChip(NATIVE_DOM, "div", tmpl[1], {}) EXCEPT !.wormhole = old]
                 ELSE IF c < old
                 THEN [reconcileNewChip(NATIVE_DOM, "div", NoChildren, {})
                       EXCEPT !.key = newKeys[c - 1]]
                 ELSE IF c = old
                 THEN [reconcileOldChip(NATIVE_DOM, "div", old, 2)
                       EXCEPT !.children = tmpl[old]]
                 ELSE [reconcileOldChip(NATIVE_DOM, "div", c, 2)
                       EXCEPT !.key = oldKeys[c - old], !.elm = c, !.parent = old]]
    /\ chip0 = chip
    /\ chipRoot = newChipRoot("ON_IDLE")
    /\ dom = <<>>
    /\ hooks = <<>>
    /\ collecting = TRUE
    /\ trans = <<>>
    /\ completions = <<>>
    /\ nextEffect = 3
    /\ mode = CONCURRENT
    /\ pc = "reconcile"
    /\ ongoing = 1
    /\ pauses = 0
    /\ originalChip = 1
    /\ lastChip = UNDEF
    /\ needCommit = commit
    /\ delta = <<>>
    /\ jobs = <<>>
    /\ cached = <<>>
    /\ sourceGetter = NoSourceGetter

SpecChildren == InitChildren /\ [][NextReconcile]_vars

\* ----------------------------------------------------- cacheEffectToChip
MaxEffects == 4        \* render effects created on the chip

EffectKinds == {"prop", "condition", "iterable"}

\* A chip on which no render effect has been created.
InitEffects ==
  /\ tmpl = [c \in 1..1 |-> NoChildren]
  /\ chip = [c \in 1..1 |-> createChip(NATIVE_DOM, "div", <<>>, NoChildren)]
  /\ chip0 = chip
  /\ chipRoot = newChipRoot("ON_IDLE")
  /\ dom = <<>>
  /\ hooks = <<>>
  /\ collecting = TRUE
  /\ trans = <<>>
  /\ completions = <<>>
  /\ nextEffect = 1
  /\ mode = CONCURRENT
  /\ pc = "effects"
  /\ ongoing = NULL
  /\ pauses = 0
  /\ originalChip = NULL
  /\ lastChip = UNDEF
  /\ needCommit = FALSE
  /\ delta = <<>>
  /\ jobs = <<>>
  /\ cached = <<>>
  /\ sourceGetter = NoSourceGetter

\* A render effect is created and handed to cacheEffectToChip(effect, chip).
CacheEffect ==
  /\ pc = "effects"
  /\ nextEffect <= MaxEffects
  /\ \E kind \in EffectKinds, name \in {PropNames[i] : i \in 1..Len(PropNames)} :
       LET e == newEffect(M, kind, 1, name)
       IN Install(cacheEffectToChip([M EXCEPT !.nextEffect = @ + 1], e, 1))
  /\ UNCHANGED <<inputs, pc, ongoing, pauses, lastChip, delta, jobs, cached, sourceGetter>>

SpecEffects == InitEffects /\ [][CacheEffect]_vars

\* ---------------------------------------------------- cacheRenderPayload
MaxCached == 4         \* payloads cached in one behaviour
MaxArray == 2          \* payloads in one array argument

PayloadTypes == {PATCH_PROP, MOUNT}

\* The payloads of the calls made so far, array arguments in index order.
RECURSIVE flattenCalls(_)
flattenCalls(calls) ==
  IF calls = <<>> THEN <<>>
  ELSE Head(calls).items \o flattenCalls(Tail(calls))

\* A root whose queue was never written.
InitPayloads ==
  /\ tmpl = [c \in 1..1 |-> NoChildren]
  /\ chip = [c \in 1..1 |-> createChip(NATIVE_DOM, "div", <<>>, NoChildren)]
  /\ chip0 = chip
  /\ chipRoot \in {newChipRoot("ON_IDLE"), newChipRoot("IMMEDIATE")}
  /\ dom = <<>>
  /\ hooks = <<>>
  /\ collecting = TRUE
  /\ trans = <<>>
  /\ completions = <<>>
  /\ nextEffect = 1
  /\ mode = CONCURRENT
  /\ pc = "payloads"
  /\ ongoing = NULL
  /\ pauses = 0
  /\ originalChip = NULL
  /\ lastChip = UNDEF
  /\ needCommit = FALSE
  /\ delta = <<>>
  /\ jobs = <<>>
  /\ cached = <<>>
  /\ sourceGetter = NoSourceGetter

\* cacheRenderPayload(payload, chipRoot) with one fresh payload.
CacheOnePayload ==
  /\ pc = "payloads"
  /\ Len(flattenCalls(cached)) < MaxCached
  /\ \E type \in PayloadTypes :
       LET payload == createRenderPayloadNode(NULL, type, Len(flattenCalls(cached)) + 1,
                                              NULL, <<>>, FALSE)
       IN /\ Install(cacheRenderPayload(M, payload))
          /\ cached' = Append(cached, [isArr |-> FALSE, items |-> <<payload>>])
  /\ UNCHANGED <<inputs, pc, ongoing, pauses, lastChip, delta, jobs, sourceGetter>>

\* cacheRenderPayload(payloads, chipRoot) with an array of fresh payloads,
\* the empty array included.
CachePayloadArray ==
  /\ pc = "payloads"
  /\ \E k \in 0..MaxArray : \E types \in [1..k -> PayloadTypes] :
       /\ Len(flattenCalls(cached)) + k <= MaxCached
       /\ Len(cached) < MaxCached
       /\ LET payloads == [i \in 1..k |->
                             createRenderPayloadNode(NULL, types[i],
                                                     Len(flattenCalls(cached)) + i,
                                                     NULL, <<>>, FALSE)]
          IN /\ Install(cacheRenderPayloads(M, payloads))
             /\ cached' = Append(cached, [isArr |-> TRUE, items |-> payloads])
  /\ UNCHANGED <<inputs, pc, ongoing, pauses, lastChip, delta, jobs, sourceGetter>>

SpecPayloads == InitPayloads /\ [][CacheOnePayload \/ CachePayloadArray]_vars

\* =================================================================== claims
ChipIds == DOMAIN chip

Count(seq, x) == Cardinality({i \in 1..Len(seq) : seq[i] = x})

\* The place of chip c's write of COMPLETE in the order of phase writes.
CompletePos(c) == CHOOSE i \in 1..Len(trans) : trans[i] = <<c, COMPLETE>>

IsComplete(c) == chip[c].phase = COMPLETE

ChildrenOf(p) == tmpl[p].items

TraversalEnded == pc \in {"returned", "done", "thrown"}

\* C1: in a first-render traversal, in either mode, a chip is COMPLETE only
\* when each of its children is, and each child's write of COMPLETE comes
\* strictly before the parent's.
C1_PostOrder ==
  \A p \in ChipIds : \A k \in 1..Len(ChildrenOf(p)) :
    IsComplete(p) =>
      /\ IsComplete(ChildrenOf(p)[k])
      /\ CompletePos(ChildrenOf(p)[k]) < CompletePos(p)

\* A chain of three chips, grandchild, child and root, all completed.
C1_Witness ==
  \E p \in ChipIds : \E c \in ChipIds : \E g \in ChipIds :
    /\ ChildrenOf(p) = <<c>> /\ ChildrenOf(c) = <<g>>
    /\ IsComplete(p) /\ IsComplete(c) /\ IsComplete(g)

C3_SyncTerminates ==
  (mode = SYNCHRONOUS /\ pc # "sync") =>
    /\ pc = "returned"
    /\ \A c \in ChipIds : IsComplete(c)

CreateCount(c) ==
  Cardinality({i \in 1..Len(dom) : dom[i].op = "createElement" /\ dom[i].chip = c})

\* C5: in a concurrent traversal with pauses between units, createElement
\* runs at most once per chip (once exactly when the chip owns a handle),
\* completeChip has run once on a COMPLETE chip and never on another, and
\* when the chain has walked back to the null terminal it has run once on
\* every chip.
C5_Idempotent ==
  mode = CONCURRENT =>
    \A c \in ChipIds :
      /\ CreateCount(c) <= 1
      /\ (chip[c].elm # NULL) <=> (CreateCount(c) = 1)
      /\ Count(completions, c) = (IF IsComplete(c) THEN 1 ELSE 0)
      /\ (pc = "done" /\ ongoing = NULL) => Count(completions, c) = 1

\* A three-chip tree walked to its end across two pauses, an element among
\* the chips.
C5_Witness ==
  /\ mode = CONCURRENT /\ pc = "done" /\ ongoing = NULL
  /\ pauses = MaxPauses
  /\ Cardinality(ChipIds) = 3
  /\ \E c \in ChipIds : chip[c].chipType = NATIVE_DOM /\ chip[c].elm # NULL

\* performRenderSync as a function of the chips handed in.
RECURSIVE syncRun(_, _, _)
syncRun(m, c, fuel) ==
  IF c = NULL \/ fuel = 0 THEN m
  ELSE LET m1 == performChipWork(m, c, SYNCHRONOUS)
       IN IF m1.threw THEN m1 ELSE syncRun(m1, m1.ret, fuel - 1)

M0 == [chip |-> chip0, root |-> newChipRoot("ON_IDLE"), dom |-> <<>>, hooks |-> <<>>,
       collecting |-> TRUE, trans |-> <<>>, completions |-> <<>>,
       nextEffect |-> 1, tmpl |-> tmpl, threw |-> FALSE, ret |-> NULL]

\* C6: when the concurrent job chain has returned null, it has made the
\* phase writes performRenderSync makes on the same tree, in the same
\* order, and no chip is left PENDING or INITIALIZE.
C6_SameAsSync ==
  (mode = CONCURRENT /\ pc = "done") =>
    /\ trans = syncRun(M0, 1, 4 * Cardinality(ChipIds)).trans
    /\ \A c \in ChipIds : IsComplete(c)

MountedHooks == {i \in 1..Len(hooks) : hooks[i].hook = "MOUNTED"}

RECURSIVE componentsOf(_)
componentsOf(seq) ==
  IF seq = <<>> THEN <<>>
  ELSE (IF chip[Head(seq)].chipType = CUSTOM_COMPONENT THEN <<Head(seq)>> ELSE <<>>)
         \o componentsOf(Tail(seq))

\* C7: synchronous first render under ON_IDLE: a MOUNTED hook has run only
\* when every chip is COMPLETE and the loop is over; on return the cache is
\* empty and the MOUNTED hooks that ran are those of the completed
\* components, one after the other at the end of the hook log.
C7_MountedBatch ==
  (mode = SYNCHRONOUS /\ chipRoot.mutableHookStrategy = "ON_IDLE") =>
    /\ MountedHooks # {} => (pc = "returned" /\ \A c \in ChipIds : IsComplete(c))
    /\ pc = "returned" =>
         /\ chipRoot.MOUNTED = <<>>
         /\ LET batch == componentsOf(completions) IN
              /\ Len(hooks) >= Len(batch)
              /\ \A i \in 1..Len(batch) :
                   hooks[Len(hooks) - Len(batch) + i] = [hook |-> "MOUNTED", target |-> batch[i]]
              /\ Cardinality(MountedHooks) = Len(batch)

\* Three components rendered synchronously, their three hooks run on return.
C7_Witness ==
  /\ mode = SYNCHRONOUS /\ chipRoot.mutableHookStrategy = "ON_IDLE"
  /\ pc = "returned"
  /\ Cardinality(MountedHooks) = 3

\* C4: in a first-render traversal and in a reconciliation pass, no step
\* leaves a chip with a phase lower than the one it had: each chip moves
\* along PENDING -> INITIALIZE -> COMPLETE.
C4_PhaseMonotone ==
  [][\A c \in DOMAIN chip : chip'[c].phase >= chip[c].phase]_vars

\* A reconciliation pass that has completed one chip and entered another.
C4_Witness ==
  /\ originalChip # NULL
  /\ \E c \in ChipIds : chip0[c].phase = PENDING /\ chip[c].phase = COMPLETE
  /\ \E c \in ChipIds : chip0[c].phase = PENDING /\ chip[c].phase = INITIALIZE

\* The payloads of the root's queue whose context is chip c, by type.
RECURSIVE payloadTypes(_, _)
payloadTypes(units, c) ==
  IF units = <<>> THEN <<>>
  ELSE (IF Head(units).context = c THEN <<Head(units).type>> ELSE <<>>)
         \o payloadTypes(Tail(units), c)

RECURSIVE subtreeOf(_)
subtreeOf(c) ==
  UNION {{d} \cup subtreeOf(d) : d \in {tmpl[c].items[k] : k \in 1..Len(tmpl[c].items)}}

\* C8: a STATIC chip the pass has reached in its descend step: the step
\* ended without error, the chip is COMPLETE, no chip of its subtree was
\* touched, and the queue holds no payload of the chip or of its subtree.
C8_StaticSkip ==
  \A c \in ChipIds :
    ("STATIC" \in chip[c].compileFlags /\ chip[c].phase # PENDING) =>
      /\ pc # "thrown"
      /\ chip[c].phase = COMPLETE
      /\ \A d \in subtreeOf(c) : chip[d] = chip0[d]
      /\ \A d \in {c} \cup subtreeOf(c) :
           payloadTypes(chipRoot.renderPayloads.units, d) = <<>>

\* C9: an element chip without a previous pair that the pass has entered,
\* the queue not yet flushed by the commit:
\* its descend step ended without error and queued one CREATE_ELEMENT
\* payload; once the chip is COMPLETE the queue holds for it CREATE_ELEMENT,
\* PATCH_PROP carrying its props, MOUNT, in this order and nothing else.
C9_MountPayloads ==
  \A c \in ChipIds :
    ( /\ originalChip # NULL /\ chip0[c].phase = PENDING
      /\ (pc = "done" => ~needCommit)
      /\ chip[c].chipType = NATIVE_DOM
      /\ Falsy(chip[c].wormhole)
      /\ "STATIC" \notin chip[c].compileFlags
      /\ chip[c].phase # PENDING ) =>
      /\ ~(pc = "thrown" /\ ongoing = c)
      /\ chip[c].phase = INITIALIZE =>
           payloadTypes(chipRoot.renderPayloads.units, c) = <<CREATE_ELEMENT>>
      /\ chip[c].phase = COMPLETE =>
           /\ payloadTypes(chipRoot.renderPayloads.units, c)
                = <<CREATE_ELEMENT, PATCH_PROP, MOUNT>>
           /\ \A i \in 1..Len(chipRoot.renderPayloads.units) :
                LET payload == chipRoot.renderPayloads.units[i] IN
                (payload.context = c /\ payload.type = PATCH_PROP)
                  => payload.props = chip[c].props

\* The literal a property value stands for.
literalOf(prop) == IF prop.dyn /\ prop.cached # UNDEF THEN prop.cached ELSE prop.v

\* The minimal delta of two property maps, as a set of entries.
minimalDelta(newProps, oldProps) ==
  {[name |-> newProps[i].name, v |-> literalOf(newProps[i]), delete |-> FALSE] :
     i \in {i \in 1..Len(newProps) :
              \/ propIndex(oldProps, newProps[i].name) = 0
              \/ literalOf(oldProps[propIndex(oldProps, newProps[i].name)])
                   # literalOf(newProps[i])}}
  \cup
  {[name |-> oldProps[j].name, v |-> UNDEF, delete |-> TRUE] :
     j \in {j \in 1..Len(oldProps) : propIndex(newProps, oldProps[j].name) = 0}}

\* C10: a reconcileProps call returns, and the delta it returns holds each
\* key once and is the minimal delta of the two property maps: the keys
\* added, the keys whose literal changed, and the keys removed as
\* PROP_TO_DELETE, static or getter on either side.
C10_DeltaMinimal ==
  pc \in {"propsThrown", "propsReturned"} =>
    /\ pc = "propsReturned"
    /\ {delta[i] : i \in 1..Len(delta)} = minimalDelta(chip0[1].props, chip0[2].props)
    /\ \A i \in 1..Len(delta) : \A j \in 1..Len(delta) :
         delta[i].name = delta[j].name => i = j

\* The entries of the root's abandoned-effects queue that hold effect e.
abandonedEntries(e) ==
  {i \in 1..Len(chipRoot.abandonedEffects.units) :
     chipRoot.abandonedEffects.units[i].effect = e}

\* C11: a chip with a previous pair that the pass has entered and not
\* skipped: its descend step ended without error, and each effect of the
\* previous chip's list is in the abandoned queue once, as the effect itself.
C11_EffectTeardown ==
  \A c \in ChipIds :
    ( /\ originalChip # NULL /\ chip0[c].phase = PENDING
      /\ ~Falsy(chip[c].wormhole)
      /\ ~chip[c].maySkip
      /\ "STATIC" \notin chip[c].compileFlags
      /\ chip[c].chipType = NATIVE_DOM
      /\ chip[c].phase # PENDING ) =>
      LET list == chip0[chip[c].wormhole].effects.units IN
      /\ ~(pc = "thrown" /\ ongoing = c /\ chip[c].phase = INITIALIZE)
      /\ Len(chipRoot.abandonedEffects.units) = Len(list)
      /\ \A i \in 1..Len(list) :
           /\ Cardinality(abandonedEntries(list[i])) = 1
           /\ \A j \in abandonedEntries(list[i]) :
                ~chipRoot.abandonedEffects.units[j].isUnit

UpdatedHooks == {i \in 1..Len(hooks) : hooks[i].hook = "UPDATED"}

\* A step in which the scheduler ran the patch job j.
RanPatchJob(j) ==
  /\ j \in 1..Len(jobs') /\ ~jobs[j].returned /\ jobs'[j].returned

\* What the dispatch and its job do to the queue: the dispatch registers one
\* job and queues nothing; the job appends one PATCH_PROP payload of the
\* chip whose props hold the key of the dispatched attribute only; no
\* UPDATED hook has run.
OnePatchPayload ==
  /\ Len(jobs') > Len(jobs) =>
       /\ Len(jobs') = Len(jobs) + 1
       /\ chipRoot'.renderPayloads = chipRoot.renderPayloads
  /\ \A j \in 1..Len(jobs) : RanPatchJob(j) =>
       /\ Len(chipRoot'.renderPayloads.units) = Len(chipRoot.renderPayloads.units) + 1
       /\ SubSeq(chipRoot'.renderPayloads.units, 1, Len(chipRoot.renderPayloads.units))
            = chipRoot.renderPayloads.units
       /\ LET payload == chipRoot'.renderPayloads.units[Len(chipRoot'.renderPayloads.units)] IN
            /\ payload.type = PATCH_PROP
            /\ payload.context = jobs[j].chip
            /\ Len(payload.props) = 1
            /\ payload.props = jobs[j].props
       /\ UpdatedHooks = {}

\* C12 as stated: in concurrent mode each dispatch of a property effect
\* yields one PATCH_PROP payload holding the dispatched key only, and its
\* job returns the commit continuation before any UPDATED hook.
C12_PatchThenCommit ==
  [][ mode = CONCURRENT =>
        /\ OnePatchPayload
        /\ \A j \in 1..Len(jobs) : RanPatchJob(j) => pc' = "patchCommit" ]_vars

\* C12, amended: the job returns the commit continuation when the dispatch
\* carried END_IN_LOOP and null otherwise, the payload staying queued.
C12_PatchThenCommitIfEndInLoop ==
  [][ mode = CONCURRENT =>
        /\ OnePatchPayload
        /\ \A j \in 1..Len(jobs) : RanPatchJob(j) =>
             /\ jobs[j].needCommit => pc' = "patchCommit"
             /\ ~jobs[j].needCommit =>
                  (pc' = "await" /\ chipRoot'.renderPayloads.units # <<>>) ]_vars

\* A dispatch whose job has queued its payload and returned the commit
\* continuation, after an earlier one whose job returned null.
C12_Witness ==
  /\ mode = CONCURRENT /\ pc = "patchCommit"
  /\ Len(jobs) = 2 /\ jobs[1].returned /\ jobs[2].returned
  /\ ~jobs[1].needCommit /\ jobs[2].needCommit
  /\ Len(chipRoot.renderPayloads.units) = 2

\* The MOUNT payloads of the queue whose context is chip c.
mountPayloads(c) ==
  {i \in 1..Len(chipRoot.renderPayloads.units) :
     /\ chipRoot.renderPayloads.units[i].context = c
     /\ chipRoot.renderPayloads.units[i].type = MOUNT}

\* C13: new siblings under the start chip, the queue not yet flushed: no
\* step on them has thrown, a sibling is COMPLETE only after every sibling
\* that follows it, and the MOUNT payload of a completed sibling other than
\* the tail names the sibling that follows it as auxiliary chip.
C13_SiblingAnchors ==
  LET siblings == tmpl[originalChip].items IN
  (pc = "done" => ~needCommit) =>
    /\ pc # "thrown"
    /\ \A j \in 1..Len(siblings) : \A k \in 1..Len(siblings) :
         (j < k /\ IsComplete(siblings[j])) =>
           /\ IsComplete(siblings[k])
           /\ CompletePos(siblings[k]) < CompletePos(siblings[j])
    /\ \A j \in 1..(Len(siblings) - 1) :
         IsComplete(siblings[j]) =>
           /\ Cardinality(mountPayloads(siblings[j])) = 1
           /\ \A i \in mountPayloads(siblings[j]) :
                chipRoot.renderPayloads.units[i].auxiliaryContext = siblings[j + 1]

\* The payloads of the queue of type t whose context carries key k.
payloadsOfKey(t, k) ==
  {i \in 1..Len(chipRoot.renderPayloads.units) :
     /\ chipRoot.renderPayloads.units[i].type = t
     /\ chip[chipRoot.renderPayloads.units[i].context].key = k}

\* The keys whose place in the children of chip 1 differs from their place
\* before the source was replaced.
displacedKeys ==
  {chip[chip[1].children.items[i]].key : i \in
     {i \in 1..Len(chip[1].children.items) :
        chip[chip[1].children.items[i]].key # chip0[chip0[1].children.items[i]].key}}

\* C14: when the pass that follows a reorder of the iteration source has
\* ended, the queue not yet flushed, the queue holds no CREATE_ELEMENT
\* payload and only MOVE payloads, one for each displaced key.
C14_MoveOnly ==
  (originalChip # NULL /\ pc \in {"commit", "done"} /\ (pc = "done" => ~needCommit)) =>
    /\ \A i \in 1..Len(chipRoot.renderPayloads.units) :
         chipRoot.renderPayloads.units[i].type = MOVE
    /\ Len(chipRoot.renderPayloads.units) = Cardinality(displacedKeys)
    /\ \A k \in displacedKeys : Cardinality(payloadsOfKey(MOVE, k)) = 1

\* C15: a chip whose wormhole is set has the tag and the key of the chip
\* the wormhole leads to.
C15_WormholeIsSameChip ==
  \A c \in ChipIds :
    ~Falsy(chip[c].wormhole) => isSameChip(chip[c], chip[chip[c].wormhole])

\* C16: after any calls of cacheRenderPayload on a queue that started
\* empty, the chain read from `first` holds the cached payloads in call
\* order, array arguments in index order, and `last` is its final node.
C16_QueueOrder ==
  pc = "payloads" =>
    /\ chipRoot.renderPayloads.units = flattenCalls(cached)
    /\ chipRoot.renderPayloads.last = Len(chipRoot.renderPayloads.units)

\* A single payload, then an array of two, then a single payload again.
C16_Witness ==
  /\ pc = "payloads" /\ Len(cached) = 3
  /\ ~cached[1].isArr
  /\ cached[2].isArr /\ Len(cached[2].items) = 2
  /\ ~cached[3].isArr
  /\ Len(chipRoot.renderPayloads.units) = 4

\* C17: until the commit continuation of a pass has run, no operation of
\* the DOM adapter has been called: the log of DOM calls is as it was when
\* the pass was registered.
C17_NoDomBeforeCommit ==
  ~(pc = "done" /\ needCommit) => dom = <<>>

\* A pass that has flushed a deletion and diffed the props of a pair, its
\* payloads queued and its commit not run.
C17_Witness ==
  /\ pc \in {"reconcile", "thrown", "commit"} /\ dom = <<>>
  /\ \E i \in 1..Len(chipRoot.renderPayloads.units) :
       chipRoot.renderPayloads.units[i].type = UNMOUNT
  /\ \E i \in 1..Len(chipRoot.renderPayloads.units) :
       chipRoot.renderPayloads.units[i].type = PATCH_PROP

\* The completion payloads (PATCH_PROP and MOUNT) of the queue whose context
\* is chip c.
completionPayloads(c) ==
  {i \in 1..Len(chipRoot.renderPayloads.units) :
     /\ chipRoot.renderPayloads.units[i].context = c
     /\ chipRoot.renderPayloads.units[i].type \in {PATCH_PROP, MOUNT}}

childSet(p) == {ChildrenOf(p)[k] : k \in 1..Len(ChildrenOf(p))}

NotSkipped(c) ==
  /\ "STATIC" \notin chip[c].compileFlags
  /\ ~(chip[c].maySkip /\ ~Falsy(chip[c].wormhole))

RenderRaised(c) ==
  /\ chip[c].chipType = CUSTOM_COMPONENT
  /\ chip0[c].phase = PENDING /\ chip[c].phase = INITIALIZE
  /\ chip[c].instance.chip = c /\ ~chip[c].instance.hasRender

\* C19: in a pass started through performReconcileWork, a render call that
\* raised in a unit the scheduler resumed (any chip below the start chip)
\* left no exception with the scheduler: the error was swallowed.
C19_RenderErrorSwallowed ==
  \A c \in ChipIds :
    (originalChip # NULL /\ c # originalChip /\ RenderRaised(c)) =>
      ~(pc = "thrown" /\ ongoing = c)

\* C20: a pass registered with needCommit in which a unit raised after
\* payloads were queued: the queue is flushed in the end.
C20_FlushAfterError ==
  (pc = "thrown" /\ needCommit /\ chipRoot.renderPayloads.units # <<>>)
    ~> (chipRoot.renderPayloads.units = <<>>)

childSetOfDeletions(p) ==
  {chip[p].deletions.items[k] : k \in 1..Len(chip[p].deletions.items)}

\* The terminal continuation of the pass has been returned.
PassEnded == originalChip # NULL /\ pc \in {"commit", "done"}

\* C21: once a pass on a start chip with children has returned its terminal
\* continuation, every chip of the new subtree that is not skipped, the
\* start chip included, is COMPLETE; and until the commit runs the queue
\* holds the start chip's diff payload and one UNMOUNT per deletion of it.
C21_StartChipCompleted ==
  (PassEnded /\ childSet(originalChip) # {}) =>
    /\ \A c \in {originalChip} \cup subtreeOf(originalChip) :
         NotSkipped(c) => IsComplete(c)
    /\ (pc = "commit" \/ ~needCommit) =>
         /\ completionPayloads(originalChip) # {}
         /\ \A d \in childSetOfDeletions(originalChip) :
              \E i \in 1..Len(chipRoot.renderPayloads.units) :
                /\ chipRoot.renderPayloads.units[i].type = UNMOUNT
                /\ chipRoot.renderPayloads.units[i].context = d

\* C22: every job of a pass the scheduler holds or has run is bound to the
\* start chip or to a chip of its subtree, never to null and never to a
\* chip outside it.
C22_StepsInsideSubtree ==
  (originalChip # NULL /\ pc \in {"reconcile", "thrown"}) =>
    ongoing \in {originalChip} \cup subtreeOf(originalChip)

\* The contexts of the UNMOUNT payloads of the queue, in queue order.
RECURSIVE unmountContexts(_)
unmountContexts(units) ==
  IF units = <<>> THEN <<>>
  ELSE (IF Head(units).type = UNMOUNT THEN <<Head(units).context>> ELSE <<>>)
         \o unmountContexts(Tail(units))

\* C23: a chip with a deletions list D that is not skipped and has entered
\* completeReconcile, the queue not yet flushed: the completion did not
\* raise, the UNMOUNT payloads of the queue are those of D in the order of D,
\* each before the chip's own diff payload, and every effect of every chip
\* of D is in the abandoned-effects queue.
C23_DeletionsFlushed ==
  \A c \in ChipIds :
    ( /\ originalChip # NULL /\ chip0[c].phase = PENDING
      /\ (pc = "done" => ~needCommit)
      /\ chip[c].deletions.isArr /\ NotSkipped(c)
      /\ IsComplete(c) ) =>
      LET D == chip[c].deletions.items
          units == chipRoot.renderPayloads.units IN
      /\ ~(pc = "thrown" /\ ongoing = c)
      /\ unmountContexts(units) = D
      /\ completionPayloads(c) # {}
      /\ \A i \in 1..Len(units) : \A j \in completionPayloads(c) :
           units[i].type = UNMOUNT => i < j
      /\ \A k \in 1..Len(D) : \A n \in 1..Len(chip0[D[k]].effects.units) :
           abandonedEntries(chip0[D[k]].effects.units[n]) # {}

\* The children of the previous chip w that have the tag and key of chip n.
sameOldChildren(w, n) ==
  {o \in {chip[w].children.items[k] : k \in 1..Len(chip[w].children.items)} :
     isSameChip(chip[n], chip[o])}

\* C24: a chip that is not skipped, has a previous pair and children, and
\* has been through its descend step: each child with a child of the
\* previous chip of its tag and key is linked to such a child, and each
\* child without one has no wormhole.
C24_ChildrenMapped ==
  \A c \in ChipIds :
    ( /\ originalChip # NULL /\ chip0[c].phase = PENDING /\ chip[c].phase # PENDING
      /\ NotSkipped(c) /\ ~Falsy(chip[c].wormhole) /\ childSet(c) # {} ) =>
      \A n \in childSet(c) :
        IF sameOldChildren(chip[c].wormhole, n) # {}
        THEN chip[n].wormhole \in sameOldChildren(chip[c].wormhole, n)
        ELSE Falsy(chip[n].wormhole)

\* C25: after an evaluation of the iteration effect, each child it rendered
\* is marked maySkip exactly when the source reference read is the one the
\* previous evaluation cached on the getter.
C25_MaySkipIffSameSource ==
  (originalChip # NULL /\ sourceGetter.read # UNDEF /\ sourceGetter.previous # UNDEF) =>
    \A n \in childSet(1) :
      chip[n].maySkip <=> (sourceGetter.read = sourceGetter.previous)

\* The number of times hook h has been invoked on the instance of chip c.
hookCount(h, c) ==
  Cardinality({i \in 1..Len(hooks) : hooks[i].hook = h /\ hooks[i].target = c})

\* C26: a component chip that is not skipped and whose descend step of the
\* pass created its instance and rendered it: without a previous pair INIT
\* and WILL_MOUNT have each been invoked once on that instance and
\* WILL_UPDATE never; with a previous pair WILL_UPDATE once and INIT and
\* WILL_MOUNT never.
C26_DescendHooks ==
  \A c \in ChipIds :
    ( /\ originalChip # NULL /\ chip0[c].phase = PENDING /\ chip[c].phase # PENDING
      /\ chip[c].chipType = CUSTOM_COMPONENT /\ NotSkipped(c)
      /\ chip[c].instance.chip = c /\ chip[c].instance.hasRender ) =>
      IF Falsy(chip[c].wormhole)
      THEN /\ hookCount("INIT", c) = 1 /\ hookCount("WILL_MOUNT", c) = 1
           /\ hookCount("WILL_UPDATE", c) = 0
      ELSE /\ hookCount("WILL_UPDATE", c) = 1
           /\ hookCount("INIT", c) = 0 /\ hookCount("WILL_MOUNT", c) = 0

\* C27: between two work units of first render or reconciliation, whether
\* the last unit returned or raised, dependency collection is enabled.
C27_CollectingAtBoundaries == collecting = TRUE

\* C28: after n effects were created on the chip, the chain of its effect
\* list read from `first` holds the n effects in creation order, and `last`
\* is on the unit of the effect created last.
C28_EffectListInOrder ==
  pc = "effects" =>
    LET list == chip[1].effects IN
    /\ Len(list.units) = nextEffect - 1
    /\ \A i \in 1..Len(list.units) : list.units[i].id = i
    /\ list.last = Len(list.units)

\* The kinds of the render effects in the effect list of chip c.
effectKinds(c) ==
  {chip[c].effects.units[i].kind : i \in 1..Len(chip[c].effects.units)}

\* C29: a chip whose first-render preparation step has run owns the effects
\* of its own kind's initialization only: a CONDITION chip one condition
\* effect, an iteration chip one iteration effect, an element prop effects
\* only, a component none.
C29_OwnBranchOnly ==
  \A c \in ChipIds :
    (originalChip = NULL /\ chip0[c].phase = PENDING /\ chip[c].phase # PENDING) =>
      /\ chip[c].chipType = CONDITION =>
           Len(chip[c].effects.units) = 1 /\ effectKinds(c) = {"condition"}
      /\ chip[c].chipType = FRAGMENT =>
           Len(chip[c].effects.units) = 1 /\ effectKinds(c) = {"iterable"}
      /\ chip[c].chipType = NATIVE_DOM => effectKinds(c) \subseteq {"prop"}
      /\ chip[c].chipType = CUSTOM_COMPONENT => effectKinds(c) = {}

\* C30: in synchronous first render, an element chip without an ancestor
\* owning a DOM handle that has entered its completion: the completion did
\* not raise and attached the chip's handle nowhere.
C30_NoAncestorContainer ==
  \A c \in ChipIds :
    ( /\ mode = SYNCHRONOUS /\ originalChip = NULL
      /\ chip[c].chipType = NATIVE_DOM
      /\ chip0[c].phase = PENDING /\ IsComplete(c)
      /\ ancestorWalk(chip, chip[c].parent) = UNDEF ) =>
      /\ ~(pc = "thrown" /\ ongoing = c)
      /\ \A i \in 1..Len(dom) :
           dom[i].op = "appendChild" => dom[i].elm # chip[c].elm

====
